---- MODULE Spec2Model ----
(***************************************************************************)
(* Profile Connection Scan Algorithm of csa-rust: the TimetableBuilder,    *)
(* the profile list operation `incorporate`, the transfer lookup and the   *)
(* backward sweep `compute`.                                               *)
(*                                                                         *)
(* Indices (stops, trips, connections) are 0-based as in the source; a Vec *)
(* is a sequence read with At.  Option<T> is a sequence of length <= 1:    *)
(* None is <<>> and Some(x) is <<x>>.                                      *)
(***************************************************************************)
EXTENDS Integers, Sequences, FiniteSets, TLC

\* ------------------------------------------------------------------ bounds
\* size of a timetable: its connections plus its footpaths
MaxSize == 3
\* longest list handed to incorporate in the list specification
MaxLen == 3

\* ------------------------------------------------------- program constants
\* u16::max_value(), the dep_time of the destination sentinel
U16_MAX == 65535
\* let transfer_duration = 5
transfer_duration == 5

\* ------------------------------------------------------------- input sets
\* stop identifiers given to s()
StopIds == {"a", "b", "c"}
\* time literals "m:ss" given to s(), as <<m, ss>>
TimeLiterals == {<<0, 5>>, <<0, 15>>}
\* time literals just below the largest u16: 1092:10 is 65530 s
LateTimeLiterals == {<<1092, 10>>, <<1092, 11>>}
\* durations of the footpaths pushed on the timetable
Durations == {3, 5}
\* dep_time / arr_time of the candidates of the list specification
IncTimes == {10, 15, 20}

\* ---------------------------------------------------------------- helpers
None == <<>>
Some(x) == <<x>>
IsSome(o) == o # <<>>
Unwrap(o) == o[1]
At(v, i) == v[i + 1]
SetAt(v, i, x) == [v EXCEPT ![i + 1] = x]
Indices(v) == 0 .. (Len(v) - 1)

VARIABLES
    pc,                 \* position of the test/adapter driving the program
    stop_map,           \* TimetableBuilder.stop_map : HashMap<String, usize>
    trips,              \* trips.len() (Trip is a unit struct)
    last_stop,          \* TimetableBuilder.last_stop : Option<(usize, u32)>
    connections,        \* builder's, then the timetable's, connections
    itineraries,        \* history: per trip() call, the s() calls that followed
    stops,              \* Timetable.stops, as the map entries they come from
    footpaths,          \* Timetable.footpaths : Vec<Vec<Footpath>>
    destination,        \* compute's destination argument
    profiles,           \* compute's profiles : Vec<Vec<Profile>>
    arr_time_with_trip, \* compute's arr_time_with_trip : Vec<Option<u16>>
    conn_index,         \* index of the next connection of the sweep
    scanned,            \* history: per scanned connection, its candidate
                        \* arrival and what incorporate returned for it
    list,               \* the Vec<Profile> of the list specification
    inc_before,         \* that list before the latest incorporate call
    inc_candidate,      \* the candidate of the latest incorporate call
    inc_result          \* what the latest incorporate call returned

vars == <<pc, stop_map, trips, last_stop, connections, itineraries, stops, footpaths,
          destination, profiles, arr_time_with_trip, conn_index, scanned,
          list, inc_before, inc_candidate, inc_result>>

builder_vars == <<stop_map, trips, last_stop, connections, itineraries>>
compute_vars == <<destination, profiles, arr_time_with_trip, conn_index, scanned>>
inc_vars == <<list, inc_before, inc_candidate, inc_result>>

\* u16 addition as a release build computes it (overflow checks off)
wrapping_add(a, b) == (a + b) % (U16_MAX + 1)
\* u16 addition that a debug build (overflow checks on) panics on
add_overflows(a, b) == a + b > U16_MAX

\* ---------------------------------------------------------------- Profile
Profile(out_connection, dep_time, arr_time) ==
    [out_connection |-> out_connection, dep_time |-> dep_time, arr_time |-> arr_time]

\* impl Default for Profile
DefaultProfile == Profile(None, U16_MAX, 0)

\* Profile::dominates
dominates(self, other) ==
    self.arr_time <= other.arr_time /\ self.dep_time >= other.dep_time

\* Profile::is_non_dominated
is_non_dominated(self, other_opt) ==
    IF IsSome(other_opt) THEN self.arr_time <= Unwrap(other_opt).arr_time ELSE TRUE

\* Iterator::rposition over a Vec: the 0-based index of the last element
\* satisfying the predicate, as an Option; hits are the indices of the
\* elements that satisfy it
rposition(v, hits) ==
    LET found == hits \cap Indices(v)
    IN  IF found = {} THEN None
        ELSE Some(CHOOSE i \in found : \A j \in found : j <= i)

\* .filter(|p| candidate.dominates(p)).collect() over the drained entries
RECURSIVE filter_dominated(_, _)
filter_dominated(v, candidate) ==
    IF v = <<>> THEN <<>>
    ELSE IF dominates(candidate, Head(v))
         THEN <<Head(v)>> \o filter_dominated(Tail(v), candidate)
         ELSE filter_dominated(Tail(v), candidate)

\* Vec::last
last(v) == IF v = <<>> THEN None ELSE Some(v[Len(v)])

\* arrival_time_with_stop_change accepting a departure at exactly
\* arrival + transfer time
arrival_time_with_stop_change_inclusive(profs, c) ==
    LET pos == rposition(profs, {i \in Indices(profs) :
                        At(profs, i).dep_time >= wrapping_add(c.arr_time, transfer_duration)})
    IN  IF IsSome(pos)
        THEN LET p == At(profs, Unwrap(pos))
             IN  IF IsSome(p.out_connection) THEN Some(p.arr_time) ELSE Some(c.arr_time)
        ELSE None

\* arrival_time_with_stop_change reading the arr_time of the sentinel
arrival_time_with_stop_change_plain(profs, c) ==
    LET pos == rposition(profs, {i \in Indices(profs) :
                        At(profs, i).dep_time > wrapping_add(c.arr_time, transfer_duration)})
    IN  IF IsSome(pos) THEN Some(At(profs, Unwrap(pos)).arr_time) ELSE None

\* fn arrival_time_with_stop_change(profiles: &[Profile], c: &Connection)
arrival_time_with_stop_change(profs, c) ==
    LET pos == rposition(profs, {i \in Indices(profs) :
                        At(profs, i).dep_time > wrapping_add(c.arr_time, transfer_duration)})
    IN  IF IsSome(pos)
        THEN LET p == At(profs, Unwrap(pos))
             IN  IF IsSome(p.out_connection) THEN Some(p.arr_time) ELSE Some(c.arr_time)
        ELSE None

\* incorporate draining from the pivot itself: self.drain(position..)
incorporate_draining_pivot(self, candidate) ==
    LET pivot == rposition(self, {i \in Indices(self) :
                        At(self, i).dep_time >= candidate.dep_time})
        kept == IF IsSome(pivot) THEN SubSeq(self, 1, Unwrap(pivot)) ELSE self
        drained == IF IsSome(pivot)
                   THEN SubSeq(self, Unwrap(pivot) + 1, Len(self))
                   ELSE <<>>
        earlier_profiles == filter_dominated(drained, candidate)
        incorporated == is_non_dominated(candidate, last(kept))
        pushed == IF incorporated THEN Append(kept, candidate) ELSE kept
    IN  [list |-> pushed \o earlier_profiles, incorporated |-> incorporated]

\* impl Incorporate for Vec<Profile>: the list after the call and the
\* returned flag
incorporate(self, candidate) ==
    LET pivot == rposition(self, {i \in Indices(self) :
                        At(self, i).dep_time >= candidate.dep_time})
        \* self.drain(position + 1..) empties the tail of self
        kept == IF IsSome(pivot) THEN SubSeq(self, 1, Unwrap(pivot) + 1) ELSE self
        drained == IF IsSome(pivot)
                   THEN SubSeq(self, Unwrap(pivot) + 2, Len(self))
                   ELSE <<>>
        earlier_profiles == filter_dominated(drained, candidate)
        incorporated == is_non_dominated(candidate, last(kept))
        pushed == IF incorporated THEN Append(kept, candidate) ELSE kept
    IN  [list |-> pushed \o earlier_profiles, incorporated |-> incorporated]

\* ------------------------------------------------------- TimetableBuilder
\* gtfs_structures::parse_time(&format!("0:{}", time)): "0:m:ss" in seconds
parse_time(lit) == 0 * 3600 + lit[1] * 60 + lit[2]

\* TimetableBuilder::stop: the index of stop_id and the map after the call
\* (a HashMap is the set of its <<key, value>> entries)
Keys(map) == {e[1] : e \in map}
Get(map, key) == (CHOOSE e \in map : e[1] = key)[2]

stop(map, stop_id) ==
    LET index == Cardinality(map)
    IN  IF stop_id \in Keys(map)
        THEN [index |-> Get(map, stop_id), map |-> map]
        ELSE [index |-> index, map |-> map \cup {<<stop_id, index>>}]

\* a connection tagged with trips.len() where the code has trips.len() - 1
Connection_untagged(trip, dep_stop, dep_time, arr_stop, arr_time) ==
    [trip |-> trip + 1, dep_stop |-> dep_stop, dep_time |-> dep_time,
     arr_stop |-> arr_stop, arr_time |-> arr_time]

Connection(trip, dep_stop, dep_time, arr_stop, arr_time) ==
    [trip |-> trip, dep_stop |-> dep_stop, dep_time |-> dep_time,
     arr_stop |-> arr_stop, arr_time |-> arr_time]

\* sort_by(|a, b| b.dep_time.cmp(&a.dep_time)): stable, descending dep_time
InsertByDepTime(sorted, c) ==
    LET k == Cardinality({i \in 1 .. Len(sorted) : sorted[i].dep_time >= c.dep_time})
    IN  SubSeq(sorted, 1, k) \o <<c>> \o SubSeq(sorted, k + 1, Len(sorted))

RECURSIVE sort_by_dep_time_desc(_)
sort_by_dep_time_desc(v) ==
    IF v = <<>> THEN <<>>
    ELSE InsertByDepTime(sort_by_dep_time_desc(SubSeq(v, 1, Len(v) - 1)), v[Len(v)])

\* Timetable::builder()
Init ==
    /\ pc = "builder"
    /\ stop_map = {}
    /\ trips = 0
    /\ last_stop = None
    /\ connections = <<>>
    /\ itineraries = <<>>
    /\ stops = {}
    /\ footpaths = <<>>
    /\ destination = 0
    /\ profiles = <<>>
    /\ arr_time_with_trip = <<>>
    /\ conn_index = 0
    /\ scanned = <<>>
    /\ list = <<>>
    /\ inc_before = <<>>
    /\ inc_candidate = None
    /\ inc_result = FALSE

\* TimetableBuilder::trip.  The callers open a trip once the trip before it
\* has a connection.
Trip ==
    /\ pc = "builder"
    /\ trips = 0 \/ \E i \in Indices(connections) : At(connections, i).trip = trips - 1
    /\ last_stop' = None
    /\ trips' = trips + 1
    /\ itineraries' = Append(itineraries, <<>>)
    /\ UNCHANGED <<pc, stop_map, connections, stops, footpaths, compute_vars, inc_vars>>

\* The callers name the stops "a", "b", "c", .. in the order of first use, as
\* every builder chain of the repository does
StopIdOrder == <<"a", "b", "c">>
NextStopIds(map) ==
    Keys(map) \cup {StopIdOrder[i] : i \in {Cardinality(map) + 1} \cap DOMAIN StopIdOrder}

\* TimetableBuilder::s.  The callers give stop times of one vehicle run:
\* times do not decrease along a trip and consecutive stops differ.
S(stop_id, time) ==
    /\ pc = "builder"
    /\ IsSome(last_stop) => Len(connections) < MaxSize
    /\ stop_id \in NextStopIds(stop_map)
    /\ LET trip_id == trips
           st == stop(stop_map, stop_id)
           stop_index == st.index
           parsed_time == parse_time(time)
       IN  IF trip_id = 0
           THEN /\ pc' = "panicked"
                /\ UNCHANGED <<builder_vars>>
           ELSE /\ IsSome(last_stop) =>
                      /\ Unwrap(last_stop)[1] # stop_index
                      /\ Unwrap(last_stop)[2] <= parsed_time
                /\ stop_map' = st.map
                /\ connections' =
                      IF IsSome(last_stop)
                      THEN Append(connections,
                                  Connection(trip_id - 1, Unwrap(last_stop)[1],
                                             Unwrap(last_stop)[2], stop_index, parsed_time))
                      ELSE connections
                /\ last_stop' = Some(<<stop_index, parsed_time>>)
                /\ itineraries' = [itineraries EXCEPT
                                      ![trip_id] = Append(@, <<stop_id, time>>)]
                /\ UNCHANGED <<pc, trips>>
    /\ UNCHANGED <<stops, footpaths, compute_vars, inc_vars>>

\* The orders in which HashMap::iter may yield the entries of the map
IterationOrders(map) ==
    {o \in [1 .. Cardinality(map) -> map] :
        \A i, j \in DOMAIN o : i # j => o[i] # o[j]}

\* The Vec<Stop> that build() may collect from the map: one Stop per entry,
\* its id the key, in any order the map's iterator may yield
StopVecs(map) ==
    {[i \in DOMAIN o |-> o[i][1]] : o \in IterationOrders(map)}

\* TimetableBuilder::build.  stops keeps the entries the Vec<Stop> is
\* collected from: the timetable's stops is any one of StopVecs(stops).
Build ==
    /\ pc = "builder"
    /\ pc' = "built"
    /\ connections' = sort_by_dep_time_desc(connections)
    /\ stops' = stop_map
    /\ footpaths' = [i \in 1 .. Cardinality(stop_map) |-> <<>>]
    \* build(mut self) consumes the builder: trips moves into the timetable
    /\ stop_map' = {}
    /\ last_stop' = None
    \* the history of the calls goes with the builder
    /\ itineraries' = <<>>
    /\ UNCHANGED <<trips, compute_vars, inc_vars>>

RECURSIVE FootpathCount(_)
FootpathCount(fps) ==
    IF fps = <<>> THEN 0 ELSE Len(Head(fps)) + FootpathCount(Tail(fps))

Footpath(from, duration) == [from |-> from, duration |-> duration]

\* t.footpaths[to].push(Footpath { from, duration })
PushFootpath(to, from, duration) ==
    /\ pc = "built"
    /\ to \in Indices(footpaths)
    /\ from \in Indices(footpaths)
    /\ from # to
    /\ Len(connections) + FootpathCount(footpaths) < MaxSize
    /\ footpaths' = SetAt(footpaths, to, Append(At(footpaths, to), Footpath(from, duration)))
    /\ UNCHANGED <<pc, builder_vars, stops, compute_vars, inc_vars>>

\* ---------------------------------------------------------------- compute
\* final_footpaths.iter().find(|f| f.from == c.arr_stop)
\*     .map(|f| c.arr_time + f.duration)
RECURSIVE walking_to_target(_, _)
walking_to_target(final_footpaths, c) ==
    IF final_footpaths = <<>> THEN None
    ELSE IF Head(final_footpaths).from = c.arr_stop
         THEN Some(wrapping_add(c.arr_time, Head(final_footpaths).duration))
         ELSE walking_to_target(Tail(final_footpaths), c)

\* [t1, t2, t3].iter().filter_map(|t| *t).min()
min_some(t1, t2, t3) ==
    LET ts == {Unwrap(t) : t \in {o \in {t1, t2, t3} : IsSome(o)}}
    IN  IF ts = {} THEN None ELSE Some(CHOOSE t \in ts : \A u \in ts : t <= u)

\* footpath_profile keeping the dep_time of the connection
footpath_profile_unwalked(cidx, c, footpath, t) ==
    Profile(Some(cidx), c.dep_time, t)

\* the profile offered to profiles[footpath.from]
footpath_profile(cidx, c, footpath, t) ==
    Profile(Some(cidx), c.dep_time - footpath.duration, t)

\* the footpath loop without .filter(|p| p.duration < c.dep_time)
RECURSIVE footpath_loop_unguarded(_, _, _, _, _)
footpath_loop_unguarded(profs, fps, cidx, c, t) ==
    IF fps = <<>> THEN profs
    ELSE LET footpath == Head(fps)
             next == SetAt(profs, footpath.from,
                           incorporate(At(profs, footpath.from),
                                       footpath_profile(cidx, c, footpath, t)).list)
         IN  footpath_loop_unguarded(next, Tail(fps), cidx, c, t)

\* for footpath in timetable.footpaths[c.dep_stop].iter()
\*     .filter(|p| p.duration < c.dep_time) { profiles[footpath.from].incorporate(..) }
RECURSIVE footpath_loop(_, _, _, _, _)
footpath_loop(profs, fps, cidx, c, t) ==
    IF fps = <<>> THEN profs
    ELSE LET footpath == Head(fps)
             next == IF footpath.duration < c.dep_time
                     THEN SetAt(profs, footpath.from,
                                incorporate(At(profs, footpath.from),
                                            footpath_profile(cidx, c, footpath, t)).list)
                     ELSE profs
         IN  footpath_loop(next, Tail(fps), cidx, c, t)

\* the three candidate arrival times of connection c and their minimum
candidate_arrival(profs, trip_times, fps, dest, c) ==
    min_some(walking_to_target(At(fps, dest), c),
             At(trip_times, c.trip),
             arrival_time_with_stop_change(At(profs, c.arr_stop), c))

\* the iteration setting arr_time_with_trip only when incorporate accepted
scan_gated(profs, trip_times, fps, dest, cidx, c) ==
    LET t_opt == candidate_arrival(profs, trip_times, fps, dest, c)
    IN  IF IsSome(t_opt)
        THEN LET t == Unwrap(t_opt)
                 candidate == Profile(Some(cidx), c.dep_time, t)
                 r == incorporate(At(profs, c.dep_stop), candidate)
                 own == SetAt(profs, c.dep_stop, r.list)
             IN  [profiles |-> IF r.incorporated
                               THEN footpath_loop(own, At(fps, c.dep_stop), cidx, c, t)
                               ELSE own,
                  arr_time_with_trip |-> IF r.incorporated
                                         THEN SetAt(trip_times, c.trip, Some(t))
                                         ELSE trip_times,
                  t |-> t_opt, incorporated |-> r.incorporated]
        ELSE [profiles |-> profs, arr_time_with_trip |-> trip_times,
              t |-> None, incorporated |-> FALSE]

\* one iteration of the loop of compute: profiles and arr_time_with_trip
\* after connection cidx
scan(profs, trip_times, fps, dest, cidx, c) ==
    LET t_opt == candidate_arrival(profs, trip_times, fps, dest, c)
    IN  IF IsSome(t_opt)
        THEN LET t == Unwrap(t_opt)
                 candidate == Profile(Some(cidx), c.dep_time, t)
                 r == incorporate(At(profs, c.dep_stop), candidate)
                 own == SetAt(profs, c.dep_stop, r.list)
             IN  [profiles |-> IF r.incorporated
                               THEN footpath_loop(own, At(fps, c.dep_stop), cidx, c, t)
                               ELSE own,
                  arr_time_with_trip |-> SetAt(trip_times, c.trip, Some(t)),
                  t |-> t_opt, incorporated |-> r.incorporated]
        ELSE [profiles |-> profs, arr_time_with_trip |-> trip_times,
              t |-> None, incorporated |-> FALSE]

\* the iteration of connection c evaluates a u16 addition that overflows:
\* c.arr_time + f.duration of the footpath found for t1, or
\* c.arr_time + transfer_duration, which rposition evaluates on the first
\* profile it visits
scan_overflows(profs, fps, dest, c) ==
    \/ \E k \in 1 .. Len(At(fps, dest)) :
          /\ At(fps, dest)[k].from = c.arr_stop
          /\ \A m \in 1 .. (k - 1) : At(fps, dest)[m].from # c.arr_stop
          /\ add_overflows(c.arr_time, At(fps, dest)[k].duration)
    \/ /\ At(profs, c.arr_stop) # <<>>
       /\ add_overflows(c.arr_time, transfer_duration)

\* compute(&timetable, dest): the state before the loop
Compute(dest) ==
    /\ pc = "built"
    /\ dest \in 0 .. (Cardinality(stops) - 1)
    /\ pc' = "sweep"
    /\ destination' = dest
    /\ arr_time_with_trip' = [i \in 1 .. trips |-> None]
    /\ profiles' = [i \in 1 .. Cardinality(stops) |->
                        IF i = dest + 1 THEN <<DefaultProfile>> ELSE <<>>]
    /\ conn_index' = 0
    /\ scanned' = <<>>
    /\ UNCHANGED <<builder_vars, stops, footpaths, inc_vars>>

\* for (conn_index, c) in timetable.connections.iter().enumerate() { .. }
Scan ==
    /\ pc = "sweep"
    /\ conn_index < Len(connections)
    /\ LET r == scan(profiles, arr_time_with_trip, footpaths, destination,
                     conn_index, At(connections, conn_index))
       IN  /\ profiles' = r.profiles
           /\ arr_time_with_trip' = r.arr_time_with_trip
           /\ scanned' = Append(scanned, [t |-> r.t, incorporated |-> r.incorporated])
    /\ conn_index' = conn_index + 1
    /\ UNCHANGED <<pc, builder_vars, stops, footpaths, destination, inc_vars>>

\* an overflowing addition of the iteration panics when the build checks
\* overflow (Scan is what the build without the checks does)
Overflow ==
    /\ pc = "sweep"
    /\ conn_index < Len(connections)
    /\ scan_overflows(profiles, footpaths, destination, At(connections, conn_index))
    /\ pc' = "overflowed"
    /\ UNCHANGED <<builder_vars, stops, footpaths, compute_vars, inc_vars>>

\* the loop is exhausted: compute returns profiles
Return ==
    /\ pc = "sweep"
    /\ conn_index = Len(connections)
    /\ pc' = "done"
    /\ UNCHANGED <<builder_vars, stops, footpaths, compute_vars, inc_vars>>

Next ==
    \/ Trip
    \/ \E stop_id \in StopIds, time \in TimeLiterals : S(stop_id, time)
    \/ Build
    \/ \E to \in 0 .. 2, from \in 0 .. 2, duration \in Durations :
          PushFootpath(to, from, duration)
    \/ \E dest \in 0 .. 2 : Compute(dest)
    \/ Scan
    \/ Return

\* With the time literals of Next no addition of the sweep comes near
\* U16_MAX, so Overflow is never enabled.
Spec == Init /\ [][Next]_vars

\* The same program on timetables whose times are just below U16_MAX.
NextLate ==
    \/ Trip
    \/ \E stop_id \in StopIds, time \in LateTimeLiterals : S(stop_id, time)
    \/ Build
    \/ \E to \in 0 .. 2, from \in 0 .. 2, duration \in Durations :
          PushFootpath(to, from, duration)
    \/ \E dest \in 0 .. 2 : Compute(dest)
    \/ Scan
    \/ Overflow
    \/ Return

SpecLate == Init /\ [][NextLate]_vars

\* ------------------------------------------------- the list specification
\* A Vec<Profile> on its own: Vec::new(), then any sequence of incorporate
\* calls (as tests::test_incorporate drives it).
InitInc ==
    /\ pc = "list"
    /\ stop_map = {}
    /\ trips = 0
    /\ last_stop = None
    /\ connections = <<>>
    /\ itineraries = <<>>
    /\ stops = {}
    /\ footpaths = <<>>
    /\ destination = 0
    /\ profiles = <<>>
    /\ arr_time_with_trip = <<>>
    /\ conn_index = 0
    /\ scanned = <<>>
    /\ list = <<>>
    /\ inc_before = <<>>
    /\ inc_candidate = None
    /\ inc_result = FALSE

\* list.incorporate(candidate)
Incorporate(candidate) ==
    /\ pc = "list"
    /\ Len(list) <= MaxLen
    /\ LET r == incorporate(list, candidate)
       IN  /\ list' = r.list
           /\ inc_result' = r.incorporated
    /\ inc_before' = list
    /\ inc_candidate' = Some(candidate)
    /\ UNCHANGED <<pc, builder_vars, stops, footpaths, compute_vars>>

Candidates == {Profile(Some(0), d, a) : d \in IncTimes, a \in IncTimes}

NextInc == \E candidate \in Candidates : Incorporate(candidate)

SpecInc == InitInc /\ [][NextInc]_vars

\* ===================================================================
\* Properties of the profile lists
\* ===================================================================
\* ordered by strictly decreasing dep_time
StrictlyDecreasingDepTime(v) ==
    \A i, j \in 1 .. Len(v) : i < j => v[i].dep_time > v[j].dep_time

\* ordered by decreasing dep_time
DecreasingDepTime(v) ==
    \A i, j \in 1 .. Len(v) : i < j => v[i].dep_time >= v[j].dep_time

\* no entry is dominated by another entry of the list
ParetoOptimal(v) ==
    \A i, j \in 1 .. Len(v) :
        i # j => ~(v[i].arr_time <= v[j].arr_time /\ v[i].dep_time >= v[j].dep_time)

\* the pivot of section 4.2: the 1-based position of the rightmost entry with
\* dep_time >= the candidate's, 0 if there is none
PivotPos(v, candidate) ==
    IF \E k \in 1 .. Len(v) : v[k].dep_time >= candidate.dep_time
    THEN CHOOSE k \in 1 .. Len(v) :
            /\ v[k].dep_time >= candidate.dep_time
            /\ \A m \in (k + 1) .. Len(v) : v[m].dep_time < candidate.dep_time
    ELSE 0

\* the entries of v arriving strictly before the candidate, in their order
RECURSIVE StrictlyBetter(_, _)
StrictlyBetter(v, candidate) ==
    IF v = <<>> THEN <<>>
    ELSE IF Head(v).arr_time < candidate.arr_time
         THEN <<Head(v)>> \o StrictlyBetter(Tail(v), candidate)
         ELSE StrictlyBetter(Tail(v), candidate)

\* the list section 4.2 asks of an accepting incorporate
AcceptedList(v, candidate) ==
    LET k == PivotPos(v, candidate)
    IN  SubSeq(v, 1, k) \o <<candidate>>
            \o StrictlyBetter(SubSeq(v, k + 1, Len(v)), candidate)

Called == IsSome(inc_candidate)
TheCandidate == Unwrap(inc_candidate)

\* C4: starting from an empty list, after any sequence of incorporate calls
\* the list is ordered by strictly decreasing dep_time (no two entries share
\* a dep_time, a later departure precedes an earlier one).
C4_StrictOrder == StrictlyDecreasingDepTime(list)

\* C5: on a list ordered by decreasing dep_time and Pareto-optimal, a
\* candidate with no pivot or strictly improving on the pivot's arr_time is
\* accepted: incorporate returns true and the list is the entries up to the
\* pivot, the candidate, then exactly the later entries arriving strictly
\* before the candidate, in their order.
C5_AcceptingIncorporate ==
    (/\ Called
     /\ DecreasingDepTime(inc_before)
     /\ ParetoOptimal(inc_before)
     /\ LET k == PivotPos(inc_before, TheCandidate)
        IN  k = 0 \/ TheCandidate.arr_time < inc_before[k].arr_time)
    => (inc_result = TRUE /\ list = AcceptedList(inc_before, TheCandidate))

\* C6: on a list ordered by decreasing dep_time, a candidate whose pivot
\* exists and whose arr_time does not improve on the pivot's is rejected:
\* incorporate returns false and the list is left as it was.
C6_RejectingIncorporate ==
    (/\ Called
     /\ DecreasingDepTime(inc_before)
     /\ LET k == PivotPos(inc_before, TheCandidate)
        IN  k # 0 /\ TheCandidate.arr_time >= inc_before[k].arr_time)
    => (inc_result = FALSE /\ list = inc_before)

\* C7: incorporating a profile already present in the list (same dep_time,
\* same arr_time) returns false and leaves the list unchanged.
C7_IdempotentIncorporate ==
    (/\ Called
     /\ \E k \in 1 .. Len(inc_before) :
            /\ inc_before[k].dep_time = TheCandidate.dep_time
            /\ inc_before[k].arr_time = TheCandidate.arr_time)
    => (inc_result = FALSE /\ list = inc_before)

\* ===================================================================
\* Properties of compute
\* ===================================================================
Stops == Indices(profiles)
Conns == Indices(connections)
Sweeping == pc \in {"sweep", "done"}

\* Connection j is a later leg of the vehicle run of connection i.  A trip is
\* declared leg by leg with non-decreasing times and the sort is stable and
\* descending, so a later leg has a larger dep_time or, at equal dep_time, a
\* larger index.
Follows(i, j) ==
    LET ci == At(connections, i)
        cj == At(connections, j)
    IN  /\ ci.trip = cj.trip
        /\ \/ cj.dep_time > ci.dep_time
           \/ cj.dep_time = ci.dep_time /\ j > i

\* The times at which a traveller aboard connection i reaches the
\* destination, on a journey that ends when it first gets there: alighting
\* there, or else walking one footpath from the arrival stop, staying seated,
\* or changing at the arrival stop onto a departure strictly later than
\* arrival + transfer time.
RECURSIVE ArrivalsVia(_)
ArrivalsVia(i) ==
    LET c == At(connections, i)
        fps == At(footpaths, destination)
    IN  IF c.arr_stop = destination THEN {c.arr_time}
        ELSE {c.arr_time + fps[k].duration :
                    k \in {m \in 1 .. Len(fps) : fps[m].from = c.arr_stop}}
             \cup UNION {ArrivalsVia(j) : j \in {m \in Conns : Follows(i, m)}}
             \cup UNION {ArrivalsVia(j) : j \in {m \in Conns :
                        /\ At(connections, m).dep_stop = c.arr_stop
                        /\ At(connections, m).dep_time > c.arr_time + transfer_duration}}

\* The times at which a traveller at stop S has to leave to board connection
\* i first: its departure if it leaves from S, or that minus the duration of
\* a footpath from S to its departure stop.
DeparturesFor(st, i) ==
    LET c == At(connections, i)
        fps == At(footpaths, c.dep_stop)
    IN  (IF c.dep_stop = st THEN {c.dep_time} ELSE {})
        \cup {c.dep_time - fps[k].duration :
                 k \in {m \in 1 .. Len(fps) : fps[m].from = st /\ fps[m].duration <= c.dep_time}}

\* As ArrivalsVia, a change of trip may also walk one footpath to the stop
\* of the next departure.
RECURSIVE RealizableArrivals(_)
RealizableArrivals(i) ==
    LET c == At(connections, i)
        fps == At(footpaths, destination)
    IN  (IF c.arr_stop = destination THEN {c.arr_time} ELSE {})
        \cup {c.arr_time + fps[k].duration : k \in {m \in 1 .. Len(fps) : fps[m].from = c.arr_stop}}
        \cup UNION {RealizableArrivals(j) : j \in {m \in Conns : Follows(i, m)}}
        \cup UNION {RealizableArrivals(j) : j \in {m \in Conns :
                        \E x \in DeparturesFor(c.arr_stop, m) :
                            x > c.arr_time + transfer_duration}}

\* C1: completeness of the frontier.  After compute, for every stop S and
\* every journey leaving S at x and reaching the destination at y,
\* profiles[S] holds a profile with dep_time >= x and arr_time <= y.  (The
\* journeys quantified over are the ones that do not pass through the
\* destination before their end.)
C1_Complete ==
    pc = "done" =>
        \A st \in Stops \ {destination},
           i \in {m \in Conns : At(connections, m).dep_stop # destination} :
            \A x \in DeparturesFor(st, i), y \in ArrivalsVia(i) :
                \E k \in 1 .. Len(At(profiles, st)) :
                    /\ At(profiles, st)[k].dep_time >= x
                    /\ At(profiles, st)[k].arr_time <= y

\* C2: soundness of every profile.  After compute, every profile of
\* profiles[S] with out_connection = Some(i) is a journey that can be made:
\* it leaves S at dep_time to board connection i first and is at the
\* destination at exactly arr_time.
C2_Sound ==
    pc = "done" =>
        \A st \in Stops :
            \A k \in 1 .. Len(At(profiles, st)) :
                LET p == At(profiles, st)[k]
                IN  IsSome(p.out_connection) =>
                        /\ p.dep_time \in DeparturesFor(st, Unwrap(p.out_connection))
                        /\ p.arr_time \in RealizableArrivals(Unwrap(p.out_connection))

\* C3: Pareto optimality.  At every step of the sweep and in the result, no
\* profile of profiles[S] is dominated by another profile of the same list.
C3_Pareto ==
    Sweeping => \A st \in Stops : ParetoOptimal(At(profiles, st))

\* the eligible entries of a transfer at connection c: dep_time strictly
\* later than arrival + transfer time
Eligible(profs, c) ==
    {k \in 1 .. Len(profs) : profs[k].dep_time > c.arr_time + transfer_duration}

\* what section 4.3 asks of the lookup
TransferArrival(profs, c) ==
    LET late == Eligible(profs, c)
    IN  IF late = {} THEN None
        ELSE LET k == CHOOSE m \in late : \A n \in late : n <= m
             IN  IF IsSome(profs[k].out_connection)
                 THEN Some(profs[k].arr_time)
                 ELSE Some(c.arr_time)

C10_OutConnection ==
    pc = "done" =>
        \A st \in Stops :
            \A k \in 1 .. Len(At(profiles, st)) :
                LET p == At(profiles, st)[k]
                IN  IsSome(p.out_connection) =>
                        LET c == At(connections, Unwrap(p.out_connection))
                            fps == At(footpaths, c.dep_stop)
                        IN  \/ c.dep_stop = st /\ p.dep_time = c.dep_time
                            \/ \E f \in 1 .. Len(fps) :
                                  /\ fps[f].from = st
                                  /\ p.dep_time = c.dep_time - fps[f].duration

\* C10 witness: a result with a profile boarding at its own stop and a
\* profile that walks a footpath to its first connection.
C10_Witness ==
    /\ pc = "done"
    /\ \E st \in Stops :
          \E k \in 1 .. Len(At(profiles, st)) :
              LET p == At(profiles, st)[k]
              IN  /\ IsSome(p.out_connection)
                  /\ At(connections, Unwrap(p.out_connection)).dep_stop = st
    /\ \E st \in Stops :
          \E k \in 1 .. Len(At(profiles, st)) :
              LET p == At(profiles, st)[k]
              IN  /\ IsSome(p.out_connection)
                  /\ At(connections, Unwrap(p.out_connection)).dep_stop # st
                  /\ p.dep_time < At(connections, Unwrap(p.out_connection)).dep_time

\* connection times are strictly below the sentinel's dep_time
TimesBelowMax ==
    \A i \in Conns : /\ At(connections, i).dep_time < U16_MAX
                     /\ At(connections, i).arr_time < U16_MAX

\* C11: on a timetable whose connection times are strictly below MAX the
\* sweep runs to completion: no iteration evaluates an addition that leaves
\* the range of u16, so compute neither panics nor wraps around.
C11_NoOverflow ==
    TimesBelowMax =>
        /\ pc # "overflowed"
        /\ (pc = "sweep" /\ conn_index < Len(connections)) =>
              ~scan_overflows(profiles, footpaths, destination,
                              At(connections, conn_index))

\* ===================================================================
\* Properties of the builder
\* ===================================================================
\* seconds of a literal "m:ss"
SecondsOf(lit) == lit[1] * 60 + lit[2]

\* the connections asked of the n-th trip() call (n from 1) with stop
\* entries it: one per pair of consecutive entries, tagged n - 1
ItineraryConnections(n, it, map) ==
    [k \in 1 .. (IF Len(it) = 0 THEN 0 ELSE Len(it) - 1) |->
        [trip |-> n - 1,
         dep_stop |-> Get(map, it[k][1]), dep_time |-> SecondsOf(it[k][2]),
         arr_stop |-> Get(map, it[k + 1][1]), arr_time |-> SecondsOf(it[k + 1][2])]]

\* those of the first n trips, in the order of the calls
RECURSIVE ExpectedConnections(_)
ExpectedConnections(n) ==
    IF n = 0 THEN <<>>
    ELSE ExpectedConnections(n - 1) \o ItineraryConnections(n, itineraries[n], stop_map)

\* sum over the first n trips of max(0, stops in trip - 1)
RECURSIVE ExpectedCount(_)
ExpectedCount(n) ==
    IF n = 0 THEN 0
    ELSE ExpectedCount(n - 1)
            + (IF Len(itineraries[n]) = 0 THEN 0 ELSE Len(itineraries[n]) - 1)

\* C12: builder connection creation.  After any sequence of trip() and s()
\* calls beginning with trip(), the connections are, trip by trip, one per
\* pair of consecutive s() calls of the trip, from the earlier (stop, time)
\* to the later, tagged with the index of the trip; the first s() of a trip
\* adds none.  build() returns a timetable with these connections, sum over
\* trips of max(0, stops in trip - 1) of them, and one trip per trip() call.
C12_BuilderConnections ==
    /\ [](pc = "builder" =>
            /\ connections = ExpectedConnections(Len(itineraries))
            /\ Len(connections) = ExpectedCount(Len(itineraries))
            /\ trips = Len(itineraries))
    /\ [][(pc = "builder" /\ pc' = "built") =>
            /\ Len(connections') = ExpectedCount(Len(itineraries))
            /\ {connections'[i] : i \in DOMAIN connections'}
                  = {connections[i] : i \in DOMAIN connections}
            /\ trips' = Len(itineraries)]_vars

\* C12 witness: a built timetable of two trips, the first with three stop
\* entries and two connections, the second with at most one stop entry and
\* no connection.
C12_Witness ==
    /\ pc = "built"
    /\ trips = 2
    /\ Len(connections) = 2
    /\ \A i \in Conns : At(connections, i).trip = 0

\* ===================================================================
\* Properties of the steps of the sweep
\* ===================================================================
\* the durations of the footpaths of the destination leaving the arrival
\* stop of c
FinalWalks(c) ==
    {At(footpaths, destination)[k].duration :
        k \in {m \in 1 .. Len(At(footpaths, destination)) :
                  At(footpaths, destination)[m].from = c.arr_stop}}

\* C13: the final walk uses the shortest footpath.  For every connection c
\* of a sweep, the walking candidate t1 is c.arr_time plus the minimum
\* duration among the footpaths of footpaths[destination] with from =
\* c.arr_stop, whatever their order in the list, and absent if there is none.
C13_ShortestFinalWalk ==
    Sweeping =>
        \A i \in Conns :
            LET c == At(connections, i)
                ds == FinalWalks(c)
            IN  walking_to_target(At(footpaths, destination), c)
                    = IF ds = {} THEN None
                      ELSE Some(c.arr_time + CHOOSE d \in ds : \A e \in ds : d <= e)

\* C14: stay seated.  After compute, for two connections c1 and c2 of one
\* trip with c2 a later leg of the vehicle run (a zero-duration c1 and a c2
\* leaving at the same time included), if the sweep derived arrival t for
\* c2 then it derived for c1 an arrival <= t, and profiles[c1.dep_stop]
\* holds a profile with dep_time >= c1.dep_time and arr_time <= t.
C14_StaySeated ==
    pc = "done" =>
        \A i, j \in Conns :
            (Follows(i, j) /\ IsSome(At(scanned, j).t)) =>
                LET c1 == At(connections, i)
                    t == Unwrap(At(scanned, j).t)
                IN  /\ IsSome(At(scanned, i).t)
                    /\ Unwrap(At(scanned, i).t) <= t
                    /\ \E k \in 1 .. Len(At(profiles, c1.dep_stop)) :
                          /\ At(profiles, c1.dep_stop)[k].dep_time >= c1.dep_time
                          /\ At(profiles, c1.dep_stop)[k].arr_time <= t

\* a step of the sweep: the loop body ran for connection conn_index
ScanStep == pc = "sweep" /\ conn_index' = conn_index + 1

\* the list after offering, in the order of fps, the profile of connection
\* cidx to it for each footpath from st no longer than allowed
RECURSIVE OfferAll(_, _, _, _, _, _)
OfferAll(profs_st, fps, st, cidx, c, t) ==
    IF fps = <<>> THEN profs_st
    ELSE OfferAll(IF Head(fps).from = st /\ Head(fps).duration < c.dep_time
                  THEN incorporate(profs_st,
                                   Profile(Some(cidx), c.dep_time - Head(fps).duration, t)).list
                  ELSE profs_st,
                  Tail(fps), st, cidx, c, t)

\* C15: footpath propagation.  In the iteration of connection c at index i
\* with derived arrival t: if incorporate accepts the candidate at
\* c.dep_stop, each footpath F of footpaths[c.dep_stop] with F.duration <
\* c.dep_time offers (Some(i), c.dep_time - F.duration, t) to
\* profiles[F.from]; if it rejects, or there is no candidate, or for the
\* footpaths with F.duration >= c.dep_time, no list other than
\* profiles[c.dep_stop] changes.
C15_FootpathPropagation ==
    [][ScanStep =>
          LET c == At(connections, conn_index)
              this == scanned'[Len(scanned')]
          IN  \A st \in Stops \ {c.dep_stop} :
                  At(profiles', st) =
                      IF this.incorporated
                      THEN OfferAll(At(profiles, st), At(footpaths, c.dep_stop), st,
                                    conn_index, c, Unwrap(this.t))
                      ELSE At(profiles, st)]_vars

\* the connection scanned last and what the history holds for it
LastIndex == conn_index - 1
LastScanned == At(scanned, LastIndex)

\* C15 witness: the candidate of the connection scanned last was accepted,
\* one footpath of its departure stop was too long to be walked and another
\* gave its origin a profile.
C15_Witness ==
    /\ pc = "sweep"
    /\ conn_index > 0
    /\ LastScanned.incorporated
    /\ LET c == At(connections, LastIndex)
           fps == At(footpaths, c.dep_stop)
       IN  /\ \E f \in 1 .. Len(fps) : fps[f].duration >= c.dep_time
           /\ \E f \in 1 .. Len(fps) :
                 /\ fps[f].duration < c.dep_time
                 /\ \E k \in 1 .. Len(At(profiles, fps[f].from)) :
                       At(profiles, fps[f].from)[k]
                           = Profile(Some(LastIndex), c.dep_time - fps[f].duration,
                                     Unwrap(LastScanned.t))

\* C16: the trip state update is not gated on incorporation.  In the
\* iteration of a connection c with a candidate arrival t = min(t1, t2, t3),
\* arr_time_with_trip[c.trip] becomes t whatever incorporate returns; with
\* no candidate arr_time_with_trip is unchanged; so arr_time_with_trip[trip]
\* never increases once set.
C16_TripUpdate ==
    [][ScanStep =>
          LET c == At(connections, conn_index)
              t_opt == candidate_arrival(profiles, arr_time_with_trip, footpaths,
                                         destination, c)
          IN  /\ arr_time_with_trip' =
                    IF IsSome(t_opt) THEN SetAt(arr_time_with_trip, c.trip, t_opt)
                    ELSE arr_time_with_trip
              /\ \A k \in 1 .. Len(arr_time_with_trip) :
                    IsSome(arr_time_with_trip[k]) =>
                        /\ IsSome(arr_time_with_trip'[k])
                        /\ Unwrap(arr_time_with_trip'[k]) <= Unwrap(arr_time_with_trip[k])]_vars

\* C16 witness: the connection scanned last had a candidate arrival that
\* incorporate rejected, and the time of its trip is that arrival.
C16_Witness ==
    /\ pc = "sweep"
    /\ conn_index > 0
    /\ IsSome(LastScanned.t)
    /\ ~LastScanned.incorporated
    /\ At(arr_time_with_trip, At(connections, LastIndex).trip) = LastScanned.t

\* C17: the destination sentinel persists.  At every step of compute and in
\* its result profiles[destination][0] is the sentinel (out_connection =
\* None, dep_time = MAX, arr_time = 0): no incorporate on
\* profiles[destination] removes it or puts an entry before it.
C17_SentinelPersists ==
    Sweeping =>
        /\ At(profiles, destination) # <<>>
        /\ At(profiles, destination)[1]
              = [out_connection |-> None, dep_time |-> U16_MAX, arr_time |-> 0]

\* C17 witness: incorporate was called on profiles[destination] for a
\* connection departing from the destination and for a profile derived
\* from a footpath leaving the destination.
C17_Witness ==
    /\ Sweeping
    /\ \E k \in Indices(scanned) :
          /\ IsSome(At(scanned, k).t)
          /\ At(connections, k).dep_stop = destination
    /\ \E k \in Indices(scanned) :
          /\ At(scanned, k).incorporated
          /\ \E f \in 1 .. Len(At(footpaths, At(connections, k).dep_stop)) :
                LET fp == At(footpaths, At(connections, k).dep_stop)[f]
                IN  fp.from = destination /\ fp.duration < At(connections, k).dep_time

\* the stop identifiers of the s() calls of the first n trips, in call order
RECURSIVE CallIds(_)
CallIds(n) ==
    IF n = 0 THEN <<>>
    ELSE CallIds(n - 1) \o [k \in 1 .. Len(itineraries[n]) |-> itineraries[n][k][1]]

\* the number of distinct identifiers seen before the first use of id
FirstSeenIndex(ids, id) ==
    LET first == CHOOSE k \in 1 .. Len(ids) :
                    ids[k] = id /\ \A m \in 1 .. (k - 1) : ids[m] # id
    IN  Cardinality({ids[m] : m \in 1 .. (first - 1)})

\* C18: stop indices and stop records agree.  The builder gives each
\* distinct stop identifier a dense index in first-seen order, a repeated
\* identifier keeping its first index; after build() the timetable has one
\* Stop per distinct identifier and stops[k].id is the identifier given
\* index k, in whatever order the identifier map is iterated.
C18_StopsAgree ==
    /\ pc = "builder" =>
          LET ids == CallIds(Len(itineraries))
          IN  stop_map = {<<ids[k], FirstSeenIndex(ids, ids[k])>> : k \in 1 .. Len(ids)}
    /\ pc \in {"built", "sweep", "done"} =>
          \A v \in StopVecs(stops) :
              /\ Len(v) = Cardinality(Keys(stops))
              /\ \A e \in stops : v[e[2] + 1] = e[1]

====
